---- MODULE Spec2Model ----
(***************************************************************************)
(* Code generation of the sen6x ESPHome component.  A build takes the      *)
(* user's configuration, validates it against the CONFIG_SCHEMAs, and then *)
(* runs the to_code coroutine of the hub and of every configured platform  *)
(* (sensor, binary_sensor, number, switch, button, text_sensor).  Each     *)
(* to_code appends C++ statements (here: instructions) with cg.add.        *)
(*                                                                         *)
(* Python dicts are functions: `KEY in d` is KEY \in DOMAIN d.  Floats are *)
(* scaled integers: normalized_offset_slope in hundredths, the min, max    *)
(* and step of a number in tenths.                                         *)
(***************************************************************************)
EXTENDS Integers, Sequences, FiniteSets, TLC

VARIABLES
    raw,      \* the configuration as the user wrote it
    config,   \* the validated configuration (defaults filled in)
    status,   \* "raw", "validated" or "failed"
    emitted,  \* the statements added with cg.add so far, in order
    ran,      \* the to_code jobs that have run, in the order they ran
    lookups,  \* the calls of get_model_capabilities made so far
    errors    \* the validators that rejected the configuration

vars == <<raw, config, status, emitted, ran, lookups, errors>>

(***************************************************************************)
(* Bounds of the model.                                                    *)
(***************************************************************************)
MaxDeclared == 2     \* entries (entity keys, platform entries, hub options) in one configuration
MaxLookups == 3      \* calls of get_model_capabilities in one behaviour
MaxCount == 7        \* largest count written in an interval such as "7d"
MaxMargin == 1       \* how far from the ends of its range a written integer lies

(***************************************************************************)
(* Helpers.                                                                *)
(***************************************************************************)
EmptyDict == [x \in {} |-> 0]

Range(s) == {s[i] : i \in DOMAIN s}

RECURSIVE Filter(_, _)
Filter(s, S) ==
    IF s = <<>> THEN <<>>
    ELSE IF Head(s) \in S THEN <<Head(s)>> \o Filter(Tail(s), S)
    ELSE Filter(Tail(s), S)

(***************************************************************************)
(* __init__.py: the capability table.                                      *)
(***************************************************************************)
MODEL_CAPABILITIES ==
    [SEN62  |-> [pm |-> TRUE, pm4 |-> TRUE,  rht |-> TRUE, voc |-> FALSE, nox |-> FALSE, co2 |-> FALSE, hcho |-> FALSE],
     SEN63C |-> [pm |-> TRUE, pm4 |-> FALSE, rht |-> TRUE, voc |-> FALSE, nox |-> FALSE, co2 |-> TRUE,  hcho |-> FALSE],
     SEN65  |-> [pm |-> TRUE, pm4 |-> FALSE, rht |-> TRUE, voc |-> TRUE,  nox |-> TRUE,  co2 |-> FALSE, hcho |-> FALSE],
     SEN66  |-> [pm |-> TRUE, pm4 |-> TRUE,  rht |-> TRUE, voc |-> TRUE,  nox |-> TRUE,  co2 |-> TRUE,  hcho |-> FALSE],
     SEN68  |-> [pm |-> TRUE, pm4 |-> FALSE, rht |-> TRUE, voc |-> TRUE,  nox |-> TRUE,  co2 |-> FALSE, hcho |-> TRUE],
     SEN69C |-> [pm |-> TRUE, pm4 |-> TRUE,  rht |-> TRUE, voc |-> TRUE,  nox |-> TRUE,  co2 |-> TRUE,  hcho |-> TRUE]]

MODELS == DOMAIN MODEL_CAPABILITIES

Flags == {"pm", "pm4", "rht", "voc", "nox", "co2", "hcho"}

\* a plausible slip: the fallback is the last record of the table
get_model_capabilities_last(model) ==
    IF model \in DOMAIN MODEL_CAPABILITIES
    THEN MODEL_CAPABILITIES[model]
    ELSE MODEL_CAPABILITIES["SEN69C"]

\* MODEL_CAPABILITIES.get(model, MODEL_CAPABILITIES["SEN66"])
get_model_capabilities(model) ==
    IF model \in DOMAIN MODEL_CAPABILITIES
    THEN MODEL_CAPABILITIES[model]
    ELSE MODEL_CAPABILITIES["SEN66"]

(***************************************************************************)
(* Instructions.  op is the call, var the variable it constructs or is     *)
(* handed ("" when it is handed none), args its literal arguments.         *)
(***************************************************************************)
Instr(op, var, args) == [op |-> op, var |-> var, args |-> args]

\* cg.add appends the statement to the build's statement list
Add(seq, instrs) == seq \o instrs

(***************************************************************************)
(* Field validators.                                                       *)
(***************************************************************************)
\* cv.Optional(key, default=d): the value written, else the default
Optional(block, key, default) == IF key \in DOMAIN block THEN block[key] ELSE default

\* a plausible slip: the upper end excluded, as in range(min, max)
int_range_half_open(v, min, max) == v >= min /\ v < max

\* cv.int_range / cv.float_range(min, max): inclusive at both ends
int_range(v, min, max) == v >= min /\ v <= max

\* cv.Required(key): the block must hold the key
Required(block, key) == key \in DOMAIN block

(***************************************************************************)
(* sensor.py: the algorithm-tuning presets and sub-schema.                 *)
(***************************************************************************)
VOC_DEFAULTS ==
    [index_offset |-> 100,
     learning_time_offset_hours |-> 12,
     learning_time_gain_hours |-> 12,
     gating_max_duration_minutes |-> 180,
     std_initial |-> 50,
     gain_factor |-> 230]

\* a plausible slip: the NOx preset copied from the VOC preset with only the
\* gating duration changed
NOX_DEFAULTS_copied ==
    [index_offset |-> 100,
     learning_time_offset_hours |-> 12,
     learning_time_gain_hours |-> 12,
     gating_max_duration_minutes |-> 720,
     std_initial |-> 50,
     gain_factor |-> 230]

NOX_DEFAULTS ==
    [index_offset |-> 1,
     learning_time_offset_hours |-> 12,
     learning_time_gain_hours |-> 12,
     gating_max_duration_minutes |-> 720,
     std_initial |-> 50,
     gain_factor |-> 230]

TuningFields == DOMAIN VOC_DEFAULTS

\* the validated block: every field, the written value or the preset's
ALGORITHM_TUNING_SCHEMA(defaults, block) ==
    [index_offset                |-> Optional(block, "index_offset", defaults["index_offset"]),
     learning_time_offset_hours  |-> Optional(block, "learning_time_offset_hours", defaults["learning_time_offset_hours"]),
     learning_time_gain_hours    |-> Optional(block, "learning_time_gain_hours", defaults["learning_time_gain_hours"]),
     gating_max_duration_minutes |-> Optional(block, "gating_max_duration_minutes", defaults["gating_max_duration_minutes"]),
     std_initial                 |-> Optional(block, "std_initial", defaults["std_initial"]),
     gain_factor                 |-> Optional(block, "gain_factor", defaults["gain_factor"])]

\* the ranges of the sub-schema, checked on the validated block
TuningInRange(tuning) ==
    /\ int_range(tuning["index_offset"], 1, 250)
    /\ int_range(tuning["learning_time_offset_hours"], 1, 1000)
    /\ int_range(tuning["learning_time_gain_hours"], 1, 1000)
    /\ int_range(tuning["gating_max_duration_minutes"], 0, 3000)
    /\ int_range(tuning["std_initial"], 10, 5000)
    /\ int_range(tuning["gain_factor"], 1, 1000)

(***************************************************************************)
(* The entity keys of each platform's CONFIG_SCHEMA.                       *)
(***************************************************************************)
SensorKeys ==
    {"pm_1_0", "pm_2_5", "pm_4_0", "pm_10_0", "humidity", "temperature",
     "voc_index", "nox_index", "co2", "formaldehyde", "tvoc_well", "tvoc_reset",
     "tvoc_ethanol", "nc_0_5", "nc_1_0", "nc_2_5", "nc_4_0", "nc_10_0",
     "ambient_pressure", "sensor_altitude"}

BinarySensorKeys ==
    {"fan_error", "fan_warning", "gas_error", "rht_error", "pm_error",
     "laser_error", "fan_cleaning_active"}

NumberKeys ==
    {"altitude_compensation", "ambient_pressure_compensation",
     "temperature_offset", "outdoor_co2_reference"}

SwitchKeys == {"co2_automatic_self_calibration", "auto_fan_cleaning"}

ButtonKeys ==
    {"fan_cleaning", "device_reset", "reset_preferences", "force_co2_calibration",
     "co2_factory_reset", "sht_heater", "clear_device_status"}

TextSensorKeys == {"product_name", "serial_number", "status_hex", "firmware_version"}

\* the platforms the hub auto-loads; the order is that of the list
AUTO_LOAD == <<"sensor", "button", "number", "text_sensor", "binary_sensor", "switch">>

Registrars == Range(AUTO_LOAD)

EntityKeys ==
    [sensor        |-> SensorKeys,
     binary_sensor |-> BinarySensorKeys,
     number        |-> NumberKeys,
     switch        |-> SwitchKeys,
     button        |-> ButtonKeys,
     text_sensor   |-> TextSensorKeys]

AllKeys == UNION {EntityKeys[r] : r \in Registrars}

(***************************************************************************)
(* The platforms' CONFIG_SCHEMAs: the validated entity configurations.     *)
(***************************************************************************)
\* a plausible slip: the block declared with an empty default, so that it is
\* always present after validation
TunedSensorSchema_defaulted(defaults, entity) ==
    [algorithm_tuning |->
        ALGORITHM_TUNING_SCHEMA(defaults, Optional(entity, "algorithm_tuning", EmptyDict))]

\* sensor.py: voc_index and nox_index take an optional algorithm_tuning block
TunedSensorSchema(defaults, entity) ==
    IF "algorithm_tuning" \in DOMAIN entity
    THEN [algorithm_tuning |-> ALGORITHM_TUNING_SCHEMA(defaults, entity["algorithm_tuning"])]
    ELSE EmptyDict

SensorSchema(c) ==
    [k \in DOMAIN c |->
        IF k = "voc_index" THEN TunedSensorSchema(VOC_DEFAULTS, c[k])
        ELSE IF k = "nox_index" THEN TunedSensorSchema(NOX_DEFAULTS, c[k])
        ELSE EmptyDict]

\* the cv.int_range validators of the sensor platform
SensorInRange(c) ==
    \A k \in DOMAIN c \cap {"voc_index", "nox_index"} :
        "algorithm_tuning" \in DOMAIN c[k] =>
            TuningInRange(SensorSchema(c)[k]["algorithm_tuning"])

SensorValid(c) ==
    /\ DOMAIN c \subseteq SensorKeys
    /\ \A k \in DOMAIN c \cap {"voc_index", "nox_index"} :
          "algorithm_tuning" \in DOMAIN c[k] =>
              DOMAIN c[k]["algorithm_tuning"] \subseteq TuningFields
    /\ SensorInRange(c)

\* number.py: temperature_offset takes normalized_offset_slope (hundredths)
\* and time_constant, both optional with default 0
NumberSchema(c) ==
    [k \in DOMAIN c |->
        IF k = "temperature_offset"
        THEN [normalized_offset_slope |-> Optional(c[k], "normalized_offset_slope", 0),
              time_constant           |-> Optional(c[k], "time_constant", 0)]
        ELSE EmptyDict]

\* cv.float_range(min=-1.0, max=1.0) of normalized_offset_slope
SlopeInRange(c) ==
    "temperature_offset" \in DOMAIN c =>
        int_range(NumberSchema(c)["temperature_offset"]["normalized_offset_slope"], -100, 100)

\* cv.int_range(min=0, max=65535) of time_constant
TimeConstantInRange(c) ==
    "temperature_offset" \in DOMAIN c =>
        int_range(NumberSchema(c)["temperature_offset"]["time_constant"], 0, 65535)

NumberValid(c) ==
    /\ DOMAIN c \subseteq NumberKeys
    /\ SlopeInRange(c)
    /\ TimeConstantInRange(c)

\* the seconds in one unit of a written time period
UNIT_SECONDS == [s |-> 1, min |-> 60, h |-> 3600, d |-> 86400]

\* the default interval, "7d"
DEFAULT_INTERVAL == [n |-> 7, unit |-> "d"]

\* cv.positive_time_period_seconds: the written period as a count of seconds
positive_time_period_seconds(period) == period["n"] * UNIT_SECONDS[period["unit"]]

\* switch.py: auto_fan_cleaning takes an optional interval, default "7d"
SwitchSchema(c) ==
    [k \in DOMAIN c |->
        IF k = "auto_fan_cleaning"
        THEN [interval |-> positive_time_period_seconds(Optional(c[k], "interval", DEFAULT_INTERVAL))]
        ELSE EmptyDict]

SwitchValid(c) ==
    /\ DOMAIN c \subseteq SwitchKeys
    /\ ("auto_fan_cleaning" \in DOMAIN c /\ "interval" \in DOMAIN c["auto_fan_cleaning"]) =>
          /\ c["auto_fan_cleaning"]["interval"]["unit"] \in DOMAIN UNIT_SECONDS
          /\ c["auto_fan_cleaning"]["interval"]["n"] >= 0

\* binary_sensor.py, button.py, text_sensor.py: entities without own fields
PlainSchema(c) == [k \in DOMAIN c |-> EmptyDict]

PlatformSchema(r, c) ==
    CASE r = "sensor" -> SensorSchema(c)
      [] r = "number" -> NumberSchema(c)
      [] r = "switch" -> SwitchSchema(c)
      [] OTHER -> PlainSchema(c)

PlatformValid(r, c) ==
    CASE r = "sensor" -> SensorValid(c)
      [] r = "number" -> NumberValid(c)
      [] r = "switch" -> SwitchValid(c)
      [] OTHER -> DOMAIN c \subseteq EntityKeys[r]

(***************************************************************************)
(* __init__.py: the hub's CONFIG_SCHEMA.                                   *)
(***************************************************************************)
RhtFields == {"k", "p", "t1", "t2"}

\* the four cv.Required keys of RHT_ACCELERATION_SCHEMA
RhtRequired(block) ==
    /\ Required(block, "k") /\ Required(block, "p")
    /\ Required(block, "t1") /\ Required(block, "t2")

\* the cv.int_range of each written field
RhtInRange(block) ==
    /\ "k" \in DOMAIN block => int_range(block["k"], -32768, 32767)
    /\ "p" \in DOMAIN block => int_range(block["p"], -32768, 32767)
    /\ "t1" \in DOMAIN block => int_range(block["t1"], 0, 65535)
    /\ "t2" \in DOMAIN block => int_range(block["t2"], 0, 65535)

\* all four fields are required and range-checked
RHT_ACCELERATION_VALID(block) ==
    /\ DOMAIN block \subseteq RhtFields
    /\ RhtRequired(block)
    /\ RhtInRange(block)

\* polling_component_schema("10s"), in milliseconds
DEFAULT_UPDATE_INTERVAL == 10000

\* i2c_device_schema(0x6B)
DEFAULT_ADDRESS == 107

\* the hub's validated configuration: the written options and the defaults
HubSchema(h) ==
    [k \in DOMAIN h \cup {"update_interval", "address"} |->
        IF k = "update_interval" THEN Optional(h, "update_interval", DEFAULT_UPDATE_INTERVAL)
        ELSE IF k = "address" THEN Optional(h, "address", DEFAULT_ADDRESS)
        ELSE h[k]]

\* a plausible slip: the identifier taken as a plain string, never resolved
use_id_unresolved(h, ids) ==
    "pressure_source" \in DOMAIN h => h["pressure_source"] # ""

\* cv.use_id(sensor.Sensor): the identifier must be that of a declared sensor
use_id(h, ids) ==
    "pressure_source" \in DOMAIN h => h["pressure_source"] \in ids

HubValid(h, ids) ==
    /\ use_id(h, ids)
    /\ "rht_acceleration" \in DOMAIN h => RHT_ACCELERATION_VALID(h["rht_acceleration"])

(***************************************************************************)
(* The to_code coroutines.  Each yields the statements it adds, in order.  *)
(***************************************************************************)
\* if KEY in config: x = await new_x(config[KEY], ...); cg.add(hub.set_...(x))
Wire(c, key, ctor, args, setter) ==
    IF key \in DOMAIN c
    THEN <<Instr(ctor, key, args), Instr(setter, key, <<>>)>>
    ELSE <<>>

\* a plausible slip: the two learning times exchanged in the call
TuningArgs_swapped(tuning) ==
    <<tuning["index_offset"],
      tuning["learning_time_gain_hours"],
      tuning["learning_time_offset_hours"],
      tuning["gating_max_duration_minutes"],
      tuning["std_initial"],
      tuning["gain_factor"]>>

\* the six values of a validated tuning block, in the order of the call
TuningArgs(tuning) ==
    <<tuning["index_offset"],
      tuning["learning_time_offset_hours"],
      tuning["learning_time_gain_hours"],
      tuning["gating_max_duration_minutes"],
      tuning["std_initial"],
      tuning["gain_factor"]>>

\* sensor.py: the voc_index block
VocToCode(c) ==
    IF "voc_index" \in DOMAIN c
    THEN <<Instr("new_sensor", "voc_index", <<>>),
           Instr("set_voc_index_sensor", "voc_index", <<>>)>>
         \o (IF "algorithm_tuning" \in DOMAIN c["voc_index"]
             THEN <<Instr("set_voc_algorithm_tuning", "",
                          TuningArgs(c["voc_index"]["algorithm_tuning"]))>>
             ELSE <<>>)
    ELSE <<>>

\* sensor.py: the nox_index block
NoxToCode(c) ==
    IF "nox_index" \in DOMAIN c
    THEN <<Instr("new_sensor", "nox_index", <<>>),
           Instr("set_nox_index_sensor", "nox_index", <<>>)>>
         \o (IF "algorithm_tuning" \in DOMAIN c["nox_index"]
             THEN <<Instr("set_nox_algorithm_tuning", "",
                          TuningArgs(c["nox_index"]["algorithm_tuning"]))>>
             ELSE <<>>)
    ELSE <<>>

SensorToCode(c) ==
       Wire(c, "pm_1_0", "new_sensor", <<>>, "set_pm_1_0_sensor")
    \o Wire(c, "pm_2_5", "new_sensor", <<>>, "set_pm_2_5_sensor")
    \o Wire(c, "pm_4_0", "new_sensor", <<>>, "set_pm_4_0_sensor")
    \o Wire(c, "pm_10_0", "new_sensor", <<>>, "set_pm_10_0_sensor")
    \o Wire(c, "humidity", "new_sensor", <<>>, "set_humidity_sensor")
    \o Wire(c, "temperature", "new_sensor", <<>>, "set_temperature_sensor")
    \o VocToCode(c)
    \o NoxToCode(c)
    \o Wire(c, "co2", "new_sensor", <<>>, "set_co2_sensor")
    \o Wire(c, "formaldehyde", "new_sensor", <<>>, "set_formaldehyde_sensor")
    \o Wire(c, "tvoc_well", "new_sensor", <<>>, "set_tvoc_well_sensor")
    \o Wire(c, "tvoc_reset", "new_sensor", <<>>, "set_tvoc_reset_sensor")
    \o Wire(c, "tvoc_ethanol", "new_sensor", <<>>, "set_tvoc_ethanol_sensor")
    \o Wire(c, "nc_0_5", "new_sensor", <<>>, "set_nc_0_5_sensor")
    \o Wire(c, "nc_1_0", "new_sensor", <<>>, "set_nc_1_0_sensor")
    \o Wire(c, "nc_2_5", "new_sensor", <<>>, "set_nc_2_5_sensor")
    \o Wire(c, "nc_4_0", "new_sensor", <<>>, "set_nc_4_0_sensor")
    \o Wire(c, "nc_10_0", "new_sensor", <<>>, "set_nc_10_0_sensor")
    \o Wire(c, "ambient_pressure", "new_sensor", <<>>, "set_ambient_pressure_sensor")
    \o Wire(c, "sensor_altitude", "new_sensor", <<>>, "set_sensor_altitude_sensor")

BinarySensorToCode(c) ==
       Wire(c, "fan_error", "new_binary_sensor", <<>>, "set_fan_error_binary_sensor")
    \o Wire(c, "fan_warning", "new_binary_sensor", <<>>, "set_fan_warning_binary_sensor")
    \o Wire(c, "gas_error", "new_binary_sensor", <<>>, "set_gas_error_binary_sensor")
    \o Wire(c, "rht_error", "new_binary_sensor", <<>>, "set_rht_error_binary_sensor")
    \o Wire(c, "pm_error", "new_binary_sensor", <<>>, "set_pm_error_binary_sensor")
    \o Wire(c, "laser_error", "new_binary_sensor", <<>>, "set_laser_error_binary_sensor")
    \o Wire(c, "fan_cleaning_active", "new_binary_sensor", <<>>, "set_fan_cleaning_active_binary_sensor")

\* a plausible slip: `and` for `or` in the test of the compensation call
TemperatureOffsetToCode_and(c) ==
    IF "temperature_offset" \in DOMAIN c
    THEN LET slope == Optional(c["temperature_offset"], "normalized_offset_slope", 0)
             time_const == Optional(c["temperature_offset"], "time_constant", 0)
         IN  <<Instr("new_number", "temperature_offset", <<-100, 100, 1>>),
               Instr("set_temperature_offset_number", "temperature_offset", <<>>)>>
             \o (IF slope # 0 /\ time_const # 0
                 THEN <<Instr("set_temperature_compensation", "", <<0, slope, time_const>>)>>
                 ELSE <<>>)
    ELSE <<>>

\* number.py: the temperature_offset block; the compensation call is
\* (0.0, slope, time_const), the slope in hundredths
TemperatureOffsetToCode(c) ==
    IF "temperature_offset" \in DOMAIN c
    THEN LET slope == Optional(c["temperature_offset"], "normalized_offset_slope", 0)
             time_const == Optional(c["temperature_offset"], "time_constant", 0)
         IN  <<Instr("new_number", "temperature_offset", <<-100, 100, 1>>),
               Instr("set_temperature_offset_number", "temperature_offset", <<>>)>>
             \o (IF slope # 0 \/ time_const # 0
                 THEN <<Instr("set_temperature_compensation", "", <<0, slope, time_const>>)>>
                 ELSE <<>>)
    ELSE <<>>

\* a plausible slip: the block of ambient_pressure_compensation copied from
\* that of altitude_compensation, max_value left as it was
NumberToCode_copied_max(c) ==
       Wire(c, "altitude_compensation", "new_number", <<0, 30000, 10>>,
            "set_altitude_compensation_number")
    \o Wire(c, "ambient_pressure_compensation", "new_number", <<0, 30000, 10>>,
            "set_ambient_pressure_compensation_number")
    \o TemperatureOffsetToCode(c)
    \o Wire(c, "outdoor_co2_reference", "new_number", <<3500, 5000, 10>>,
            "set_outdoor_co2_reference_number")

\* number.py: min_value, max_value and step are in tenths
NumberToCode(c) ==
       Wire(c, "altitude_compensation", "new_number", <<0, 30000, 10>>,
            "set_altitude_compensation_number")
    \o Wire(c, "ambient_pressure_compensation", "new_number", <<0, 11000, 10>>,
            "set_ambient_pressure_compensation_number")
    \o TemperatureOffsetToCode(c)
    \o Wire(c, "outdoor_co2_reference", "new_number", <<3500, 5000, 10>>,
            "set_outdoor_co2_reference_number")

\* a plausible slip: the interval handed over in seconds
AutoFanCleaningToCode_seconds(c) ==
    IF "auto_fan_cleaning" \in DOMAIN c
    THEN <<Instr("new_switch", "auto_fan_cleaning", <<>>),
           Instr("set_auto_cleaning_switch", "auto_fan_cleaning", <<>>),
           Instr("set_auto_cleaning_interval", "",
                 <<c["auto_fan_cleaning"]["interval"]>>)>>
    ELSE <<>>

\* switch.py: the auto_fan_cleaning block; int(interval_seconds * 1000)
AutoFanCleaningToCode(c) ==
    IF "auto_fan_cleaning" \in DOMAIN c
    THEN <<Instr("new_switch", "auto_fan_cleaning", <<>>),
           Instr("set_auto_cleaning_switch", "auto_fan_cleaning", <<>>),
           Instr("set_auto_cleaning_interval", "",
                 <<c["auto_fan_cleaning"]["interval"] * 1000>>)>>
    ELSE <<>>

\* a plausible slip: the two blocks of the switch's to_code exchanged
SwitchToCode_exchanged(c) ==
       AutoFanCleaningToCode(c)
    \o Wire(c, "co2_automatic_self_calibration", "new_switch", <<>>, "set_co2_asc_switch")

SwitchToCode(c) ==
       Wire(c, "co2_automatic_self_calibration", "new_switch", <<>>, "set_co2_asc_switch")
    \o AutoFanCleaningToCode(c)

\* a plausible slip: a copied block that keeps the setter of its original
ButtonToCode_copied(c) ==
       Wire(c, "fan_cleaning", "new_button", <<>>, "set_fan_cleaning_button")
    \o Wire(c, "device_reset", "new_button", <<>>, "set_fan_cleaning_button")
    \o Wire(c, "reset_preferences", "new_button", <<>>, "set_reset_preferences_button")
    \o Wire(c, "force_co2_calibration", "new_button", <<>>, "set_force_co2_calibration_button")
    \o Wire(c, "co2_factory_reset", "new_button", <<>>, "set_co2_factory_reset_button")
    \o Wire(c, "sht_heater", "new_button", <<>>, "set_sht_heater_button")
    \o Wire(c, "clear_device_status", "new_button", <<>>, "set_clear_device_status_button")

ButtonToCode(c) ==
       Wire(c, "fan_cleaning", "new_button", <<>>, "set_fan_cleaning_button")
    \o Wire(c, "device_reset", "new_button", <<>>, "set_device_reset_button")
    \o Wire(c, "reset_preferences", "new_button", <<>>, "set_reset_preferences_button")
    \o Wire(c, "force_co2_calibration", "new_button", <<>>, "set_force_co2_calibration_button")
    \o Wire(c, "co2_factory_reset", "new_button", <<>>, "set_co2_factory_reset_button")
    \o Wire(c, "sht_heater", "new_button", <<>>, "set_sht_heater_button")
    \o Wire(c, "clear_device_status", "new_button", <<>>, "set_clear_device_status_button")

TextSensorToCode(c) ==
       Wire(c, "product_name", "new_text_sensor", <<>>, "set_product_name_text_sensor")
    \o Wire(c, "serial_number", "new_text_sensor", <<>>, "set_serial_number_text_sensor")
    \o Wire(c, "status_hex", "new_text_sensor", <<>>, "set_status_text_sensor")
    \o Wire(c, "firmware_version", "new_text_sensor", <<>>, "set_firmware_version_sensor")

\* a plausible slip: k and p exchanged in the struct of the RHT acceleration
HubToCode_p_for_k(h) ==
       <<Instr("new_Pvariable", "hub", <<>>),
         Instr("register_component", "hub", <<h["update_interval"]>>),
         Instr("register_i2c_device", "hub", <<h["address"]>>)>>
    \o (IF "pressure_source" \in DOMAIN h
        THEN <<Instr("set_pressure_source", h["pressure_source"], <<>>)>>
        ELSE <<>>)
    \o (IF "rht_acceleration" \in DOMAIN h
        THEN <<Instr("set_rht_acceleration", "",
                     <<h["rht_acceleration"]["p"], h["rht_acceleration"]["k"],
                       h["rht_acceleration"]["t1"], h["rht_acceleration"]["t2"]>>)>>
        ELSE <<>>)

\* a plausible slip: the hub registered on the bus only after its options
\* have been set
HubToCode_registered_last(h) ==
       <<Instr("new_Pvariable", "hub", <<>>),
         Instr("register_component", "hub", <<h["update_interval"]>>)>>
    \o (IF "pressure_source" \in DOMAIN h
        THEN <<Instr("set_pressure_source", h["pressure_source"], <<>>)>>
        ELSE <<>>)
    \o (IF "rht_acceleration" \in DOMAIN h
        THEN <<Instr("set_rht_acceleration", "",
                     <<h["rht_acceleration"]["k"], h["rht_acceleration"]["p"],
                       h["rht_acceleration"]["t1"], h["rht_acceleration"]["t2"]>>)>>
        ELSE <<>>)
    \o <<Instr("register_i2c_device", "hub", <<h["address"]>>)>>

\* a plausible slip: the two optional blocks of the hub's to_code exchanged
HubToCode_rht_first(h) ==
       <<Instr("new_Pvariable", "hub", <<>>),
         Instr("register_component", "hub", <<h["update_interval"]>>),
         Instr("register_i2c_device", "hub", <<h["address"]>>)>>
    \o (IF "rht_acceleration" \in DOMAIN h
        THEN <<Instr("set_rht_acceleration", "",
                     <<h["rht_acceleration"]["k"], h["rht_acceleration"]["p"],
                       h["rht_acceleration"]["t1"], h["rht_acceleration"]["t2"]>>)>>
        ELSE <<>>)
    \o (IF "pressure_source" \in DOMAIN h
        THEN <<Instr("set_pressure_source", h["pressure_source"], <<>>)>>
        ELSE <<>>)

\* __init__.py: the hub is constructed and registered, then the pressure
\* source is bound, then the RHT acceleration is set
HubToCode(h) ==
       <<Instr("new_Pvariable", "hub", <<>>),
         Instr("register_component", "hub", <<h["update_interval"]>>),
         Instr("register_i2c_device", "hub", <<h["address"]>>)>>
    \o (IF "pressure_source" \in DOMAIN h
        THEN <<Instr("set_pressure_source", h["pressure_source"], <<>>)>>
        ELSE <<>>)
    \o (IF "rht_acceleration" \in DOMAIN h
        THEN <<Instr("set_rht_acceleration", "",
                     <<h["rht_acceleration"]["k"], h["rht_acceleration"]["p"],
                       h["rht_acceleration"]["t1"], h["rht_acceleration"]["t2"]>>)>>
        ELSE <<>>)

\* the order of the `if KEY in config` tests of each platform's to_code
CodeOrder ==
    [sensor |->
        <<"pm_1_0", "pm_2_5", "pm_4_0", "pm_10_0", "humidity", "temperature",
          "voc_index", "nox_index", "co2", "formaldehyde", "tvoc_well", "tvoc_reset",
          "tvoc_ethanol", "nc_0_5", "nc_1_0", "nc_2_5", "nc_4_0", "nc_10_0",
          "ambient_pressure", "sensor_altitude">>,
     binary_sensor |->
        <<"fan_error", "fan_warning", "gas_error", "rht_error", "pm_error",
          "laser_error", "fan_cleaning_active">>,
     number |->
        <<"altitude_compensation", "ambient_pressure_compensation",
          "temperature_offset", "outdoor_co2_reference">>,
     switch |-> <<"co2_automatic_self_calibration", "auto_fan_cleaning">>,
     button |->
        <<"fan_cleaning", "device_reset", "reset_preferences", "force_co2_calibration",
          "co2_factory_reset", "sht_heater", "clear_device_status">>,
     text_sensor |-> <<"product_name", "serial_number", "status_hex", "firmware_version">>]

PlatformToCode(r, c) ==
    CASE r = "sensor"        -> SensorToCode(c)
      [] r = "binary_sensor" -> BinarySensorToCode(c)
      [] r = "number"        -> NumberToCode(c)
      [] r = "switch"        -> SwitchToCode(c)
      [] r = "button"        -> ButtonToCode(c)
      [] r = "text_sensor"   -> TextSensorToCode(c)

(***************************************************************************)
(* The build.                                                              *)
(***************************************************************************)
Platforms == DOMAIN raw.platform

\* every CONFIG_SCHEMA accepts its part of the configuration
ConfigValid ==
    /\ HubValid(raw.hub, raw.ids)
    /\ \A r \in Platforms : PlatformValid(r, raw.platform[r])

\* the validators that reject the configuration, by name; "schema" stands
\* for every other rejection (an unknown key, a malformed time period)
ConfigErrors ==
    LET h == raw.hub
        rht == "rht_acceleration" \in DOMAIN h
        named ==
            (IF use_id(h, raw.ids) THEN {} ELSE {"use_id"})
            \cup (IF rht /\ ~RhtRequired(h["rht_acceleration"]) THEN {"Required"} ELSE {})
            \cup (IF \/ rht /\ ~RhtInRange(h["rht_acceleration"])
                     \/ "sensor" \in Platforms /\ ~SensorInRange(raw.platform["sensor"])
                     \/ "number" \in Platforms /\ ~TimeConstantInRange(raw.platform["number"])
                  THEN {"int_range"} ELSE {})
            \cup (IF "number" \in Platforms /\ ~SlopeInRange(raw.platform["number"])
                  THEN {"float_range"} ELSE {})
    IN  IF named = {} /\ ~ConfigValid THEN {"schema"} ELSE named

\* Validation runs before any to_code: the configuration is normalised, or
\* the build fails and no to_code ever runs.
Validate ==
    /\ status = "raw"
    /\ IF ConfigValid
       THEN /\ status' = "validated"
            /\ errors' = {}
            /\ config' = [hub |-> HubSchema(raw.hub),
                          platform |-> [r \in Platforms |-> PlatformSchema(r, raw.platform[r])]]
       ELSE /\ status' = "failed"
            /\ errors' = ConfigErrors
            /\ config' = config
    /\ UNCHANGED <<raw, emitted, ran, lookups>>

\* The hub's to_code.
RunHub ==
    /\ status = "validated"
    /\ "hub" \notin Range(ran)
    /\ emitted' = Add(emitted, HubToCode(config.hub))
    /\ ran' = Append(ran, "hub")
    /\ UNCHANGED <<raw, config, status, lookups, errors>>

\* a plausible slip: a to_code that does not wait for the hub
RunPlatform_unawaited(r) ==
    /\ status = "validated"
    /\ r \in Platforms \ Range(ran)
    /\ emitted' = Add(emitted, PlatformToCode(r, config.platform[r]))
    /\ ran' = Append(ran, r)
    /\ UNCHANGED <<raw, config, status, lookups, errors>>

\* A platform's to_code: hub = await cg.get_variable(config[CONF_SEN6X_ID])
\* resolves once the hub's to_code has constructed the hub; the order among
\* the platforms is the host's.
RunPlatform(r) ==
    /\ status = "validated"
    /\ "hub" \in Range(ran)
    /\ r \in Platforms \ Range(ran)
    /\ emitted' = Add(emitted, PlatformToCode(r, config.platform[r]))
    /\ ran' = Append(ran, r)
    /\ UNCHANGED <<raw, config, status, lookups, errors>>

Next ==
    \/ Validate
    \/ RunHub
    \/ \E r \in Registrars : RunPlatform(r)

\* every to_code of the build has run
Done == status = "validated" /\ Len(ran) = 1 + Cardinality(Platforms)

(***************************************************************************)
(* The configurations of Spec: at most MaxDeclared entries, each an entity *)
(* key, a platform entry without entities, or a hub option, in the order   *)
(* written.                                                                *)
(***************************************************************************)
PRESSURE_ID == "bme280_pressure"

\* an identifier that no sensor of the build declares
UNDECLARED_ID == "no_such_sensor"

SampleRht == [k |-> 1, p |-> -2, t1 |-> 3, t2 |-> 4]

\* pressure_source is written with a declared or with an undeclared identifier
PressureEntries == {"pressure_source", "pressure_source_undeclared"}

Entries == AllKeys \cup Registrars \cup PressureEntries \cup {"rht_acceleration"}

EntrySeqs ==
    UNION {{s \in [1..n -> Entries] :
               /\ \A i, j \in 1..n : i # j => s[i] # s[j]
               /\ ~(PressureEntries \subseteq Range(s))}
           : n \in 0..MaxDeclared}

RawHubOf(written) ==
    [k \in {"pressure_source" : e \in written \cap PressureEntries}
            \cup (written \cap {"rht_acceleration"}) |->
        IF k = "rht_acceleration" THEN SampleRht
        ELSE IF "pressure_source" \in written THEN PRESSURE_ID
        ELSE UNDECLARED_ID]

RawOf(s) ==
    LET written == Range(s)
        present == {r \in Registrars : r \in written \/ written \cap EntityKeys[r] # {}}
    IN  [hub |-> RawHubOf(written),
         ids |-> {PRESSURE_ID},
         platform |-> [r \in present |-> [k \in written \cap EntityKeys[r] |-> EmptyDict]],
         order |-> [r \in present |-> Filter(s, EntityKeys[r])]]

NoConfig == [hub |-> EmptyDict, platform |-> EmptyDict]

InitBuild(inputs) ==
    /\ raw \in inputs
    /\ config = NoConfig
    /\ status = "raw"
    /\ emitted = <<>>
    /\ ran = <<>>
    /\ lookups = <<>>
    /\ errors = {}

Init == InitBuild({RawOf(s) : s \in EntrySeqs})

Spec == Init /\ [][Next]_vars

(***************************************************************************)
(* The configurations of SpecTuning: the sensor platform with voc_index    *)
(* and nox_index, each with or without an algorithm_tuning block that      *)
(* writes any subset of the six fields.                                    *)
(***************************************************************************)
TuningSamples ==
    {[index_offset |-> 50, learning_time_offset_hours |-> 720,
      learning_time_gain_hours |-> 24, gating_max_duration_minutes |-> 0,
      std_initial |-> 10, gain_factor |-> 1000],
     [index_offset |-> 250, learning_time_offset_hours |-> 1,
      learning_time_gain_hours |-> 1000, gating_max_duration_minutes |-> 3000,
      std_initial |-> 5000, gain_factor |-> 1]}

TuningBlocks == {[f \in S |-> v[f]] : S \in SUBSET TuningFields, v \in TuningSamples}

\* an entity written with or without an algorithm_tuning block
TunedEntities == {EmptyDict} \cup {[algorithm_tuning |-> b] : b \in TuningBlocks}

OnePlatform(r, entities, order) ==
    [hub |-> EmptyDict,
     ids |-> {},
     platform |-> (r :> entities),
     order |-> (r :> order)]

TuningInputs ==
    {OnePlatform("sensor", EmptyDict, <<>>)}
    \cup {OnePlatform("sensor", (k :> e), <<k>>) :
             k \in {"voc_index", "nox_index"}, e \in TunedEntities}
    \cup {OnePlatform("sensor", ("voc_index" :> v) @@ ("nox_index" :> n), o) :
             v \in TunedEntities, n \in TunedEntities,
             o \in {<<"voc_index", "nox_index">>, <<"nox_index", "voc_index">>}}

InitTuning == InitBuild(TuningInputs)

SpecTuning == InitTuning /\ [][Next]_vars

(***************************************************************************)
(* The configurations of SpecNumber: the number platform, its entities in  *)
(* any order, temperature_offset with or without slope and time constant.  *)
(***************************************************************************)
Slopes == {-100, -5, 0, 5, 100}

TimeConstants == {0, 1, 65535}

TemperatureOffsets ==
    {[f \in S |-> IF f = "normalized_offset_slope" THEN sl ELSE tc] :
        S \in SUBSET {"normalized_offset_slope", "time_constant"},
        sl \in Slopes, tc \in TimeConstants}

KeySeqs(keys) ==
    UNION {{s \in [1..n -> keys] : \A i, j \in 1..n : i # j => s[i] # s[j]}
           : n \in 0..Cardinality(keys)}

NumberInputs ==
    {OnePlatform("number",
                 [k \in Range(o) |-> IF k = "temperature_offset" THEN t ELSE EmptyDict], o) :
        o \in KeySeqs(NumberKeys), t \in TemperatureOffsets}

InitNumber == InitBuild(NumberInputs)

SpecNumber == InitNumber /\ [][Next]_vars

(***************************************************************************)
(* The configurations of SpecSwitch: the switch platform, its entities in  *)
(* any order, auto_fan_cleaning with or without an interval.               *)
(***************************************************************************)
Intervals == {[n |-> n, unit |-> u] : n \in 0..MaxCount, u \in DOMAIN UNIT_SECONDS}

AutoFanCleanings == {EmptyDict} \cup {[interval |-> i] : i \in Intervals}

SwitchInputs ==
    {OnePlatform("switch",
                 [k \in Range(o) |-> IF k = "auto_fan_cleaning" THEN a ELSE EmptyDict], o) :
        o \in KeySeqs(SwitchKeys), a \in AutoFanCleanings}

InitSwitch == InitBuild(SwitchInputs)

SpecSwitch == InitSwitch /\ [][Next]_vars

(***************************************************************************)
(* The configurations of SpecRange: one integer field written with a value *)
(* at, inside or outside an end of its range, everything else valid.       *)
(***************************************************************************)
\* the cv.int_range of each field of ALGORITHM_TUNING_SCHEMA
TuningRanges ==
    [index_offset |-> <<1, 250>>, learning_time_offset_hours |-> <<1, 1000>>,
     learning_time_gain_hours |-> <<1, 1000>>, gating_max_duration_minutes |-> <<0, 3000>>,
     std_initial |-> <<10, 5000>>, gain_factor |-> <<1, 1000>>]

\* the cv.int_range of each field of RHT_ACCELERATION_SCHEMA
RhtRanges ==
    [k |-> <<-32768, 32767>>, p |-> <<-32768, 32767>>,
     t1 |-> <<0, 65535>>, t2 |-> <<0, 65535>>]

\* the cv.int_range of time_constant
TimeConstantRange == <<0, 65535>>

\* the values within MaxMargin of an end of the range
Around(range) ==
    ((range[1] - MaxMargin)..(range[1] + MaxMargin))
    \cup ((range[2] - MaxMargin)..(range[2] + MaxMargin))

\* a hub with the given options, and one sensor
HubWith(options) ==
    [hub |-> options,
     ids |-> {PRESSURE_ID},
     platform |-> ("sensor" :> ("voc_index" :> EmptyDict)),
     order |-> ("sensor" :> <<"voc_index">>)]

RangeInputs ==
    UNION {{OnePlatform("sensor", (k :> [algorithm_tuning |-> (f :> v)]), <<k>>) :
               k \in {"voc_index", "nox_index"}, v \in Around(TuningRanges[f])}
           : f \in TuningFields}
    \cup UNION {{HubWith("rht_acceleration" :> [SampleRht EXCEPT ![f] = v]) :
                    v \in Around(RhtRanges[f])}
                : f \in RhtFields}
    \cup {OnePlatform("number", ("temperature_offset" :> [time_constant |-> v]),
                      <<"temperature_offset">>) :
              v \in Around(TimeConstantRange)}

InitRange == InitBuild(RangeInputs)

SpecRange == InitRange /\ [][Next]_vars

(***************************************************************************)
(* The configurations of SpecRht: a hub with or without a pressure source  *)
(* and with or without an rht_acceleration block that writes any subset of *)
(* the four fields.                                                        *)
(***************************************************************************)
RhtSamples ==
    {SampleRht,
     [k |-> 20, p |-> 20, t1 |-> 100, t2 |-> 300],
     [k |-> -32768, p |-> 32767, t1 |-> 0, t2 |-> 65535]}

RhtBlocks == {[f \in S |-> v[f]] : S \in SUBSET RhtFields, v \in RhtSamples}

\* the hub's options as written
RhtOptions ==
    {EmptyDict, "pressure_source" :> PRESSURE_ID}
    \cup {"rht_acceleration" :> b : b \in RhtBlocks}
    \cup {("pressure_source" :> PRESSURE_ID) @@ ("rht_acceleration" :> b) : b \in RhtBlocks}

InitRht == InitBuild({HubWith(o) : o \in RhtOptions})

SpecRht == InitRht /\ [][Next]_vars

(***************************************************************************)
(* SpecCapabilities: calls of get_model_capabilities, with known and       *)
(* unknown model identifiers.                                              *)
(***************************************************************************)
ModelIds == MODELS \cup {"SEN60", "SEN66C", "sen66"}

LookupCapabilities ==
    /\ Len(lookups) < MaxLookups
    /\ \E m \in ModelIds :
          lookups' = Append(lookups, [model |-> m, caps |-> get_model_capabilities(m)])
    /\ UNCHANGED <<raw, config, status, emitted, ran, errors>>

InitCapabilities == InitBuild({OnePlatform("sensor", EmptyDict, <<>>)})

SpecCapabilities == InitCapabilities /\ [][LookupCapabilities]_vars

(***************************************************************************)
(* The claims.                                                             *)
(***************************************************************************)
\* the positions of the emitted instructions with this op
At(op) == {i \in DOMAIN emitted : emitted[i].op = op}

\* the platform's to_code has run
Ran(r) == r \in Range(ran)

\* the user wrote the entity key under its platform
Declared(r, k) == r \in Platforms /\ k \in DOMAIN raw.platform[r]

\* the user wrote the option under the entity
Written(r, k, option) == Declared(r, k) /\ option \in DOMAIN raw.platform[r][k]

\* C1, as claimed: a known model identifier yields its own record, and an
\* unknown one yields a record that has every flag some record of the table has.
C1_FallbackMostCapable ==
    \A i \in DOMAIN lookups :
        LET l == lookups[i]
        IN  /\ l.model \in MODELS => l.caps = MODEL_CAPABILITIES[l.model]
            /\ l.model \notin MODELS =>
                  \A f \in Flags :
                      (\E m \in MODELS : MODEL_CAPABILITIES[m][f]) => l.caps[f]

\* C1, amended: a known model identifier yields its own record, and an unknown
\* one yields the SEN66 record, which has every flag some record of the table
\* has except hcho (SEN68 and SEN69C have it, the fallback does not).
C1_FallbackIsSEN66 ==
    \A i \in DOMAIN lookups :
        LET l == lookups[i]
        IN  /\ l.caps \in {MODEL_CAPABILITIES[m] : m \in MODELS}
            /\ l.model \in MODELS => l.caps = MODEL_CAPABILITIES[l.model]
            /\ l.model \notin MODELS =>
                  /\ l.caps = [pm |-> TRUE, pm4 |-> TRUE, rht |-> TRUE, voc |-> TRUE,
                               nox |-> TRUE, co2 |-> TRUE, hcho |-> FALSE]
                  /\ \A f \in Flags \ {"hcho"} :
                        (\E m \in MODELS : MODEL_CAPABILITIES[m][f]) => l.caps[f]
                  /\ \E m \in MODELS : MODEL_CAPABILITIES[m]["hcho"]

C1_Witness ==
    /\ \E i \in DOMAIN lookups : lookups[i].model \notin MODELS
    /\ \E i \in DOMAIN lookups : lookups[i].model = "SEN68"

\* C2, as claimed: with both hub options configured, the RHT-acceleration
\* instruction is emitted before the pressure-source binding.
C2_RhtBeforePressure ==
    ("hub" \in Range(ran)
        /\ "rht_acceleration" \in DOMAIN raw.hub /\ "pressure_source" \in DOMAIN raw.hub)
    => /\ Cardinality(At("set_rht_acceleration")) = 1
       /\ Cardinality(At("set_pressure_source")) = 1
       /\ \A i \in At("set_rht_acceleration"), j \in At("set_pressure_source") : i < j

\* C2, amended: with both hub options configured, the single pressure-source
\* binding is emitted before the single RHT-acceleration instruction.
C2_PressureBeforeRht ==
    ("hub" \in Range(ran)
        /\ "rht_acceleration" \in DOMAIN raw.hub /\ "pressure_source" \in DOMAIN raw.hub)
    => /\ Cardinality(At("set_rht_acceleration")) = 1
       /\ Cardinality(At("set_pressure_source")) = 1
       /\ \A i \in At("set_rht_acceleration"), j \in At("set_pressure_source") : j < i

C2_Witness ==
    /\ Done
    /\ "rht_acceleration" \in DOMAIN raw.hub /\ "pressure_source" \in DOMAIN raw.hub
    /\ At("set_rht_acceleration") # {} /\ At("set_pressure_source") # {}

\* the tuning instruction of a sensor is there exactly when the sensor is
\* declared with a block, once, after the sensor's binding
TuningEmittedIff(key, binding, tuning) ==
    IF Ran("sensor") /\ Written("sensor", key, "algorithm_tuning")
    THEN /\ Cardinality(At(tuning)) = 1
         /\ \A i \in At(tuning) :
               \E j \in At(binding) : j < i /\ emitted[j].var = key
    ELSE At(tuning) = {}

\* C3: a tuning instruction for voc_index (nox_index) is emitted if and only if
\* that sensor is declared with an algorithm_tuning block; then it is emitted
\* once, after that sensor's binding, whatever the other sensor declares.
C3_TuningIffBlock ==
    /\ TuningEmittedIff("voc_index", "set_voc_index_sensor", "set_voc_algorithm_tuning")
    /\ TuningEmittedIff("nox_index", "set_nox_index_sensor", "set_nox_algorithm_tuning")

C3_Witness ==
    /\ Done
    /\ Written("sensor", "voc_index", "algorithm_tuning")
    /\ Declared("sensor", "nox_index")
    /\ ~Written("sensor", "nox_index", "algorithm_tuning")
    /\ At("set_voc_algorithm_tuning") # {}
    /\ At("set_nox_index_sensor") # {}

\* the six fields in the order of the call
C4_Order ==
    <<"index_offset", "learning_time_offset_hours", "learning_time_gain_hours",
      "gating_max_duration_minutes", "std_initial", "gain_factor">>

\* the written value of each field, the kind's default where it is omitted
C4_Expected(block, defaults) ==
    [p \in 1..6 |-> IF C4_Order[p] \in DOMAIN block THEN block[C4_Order[p]] ELSE defaults[p]]

C4_ArgsOf(key, tuning, defaults) ==
    (Ran("sensor") /\ Written("sensor", key, "algorithm_tuning"))
    => \E i \in At(tuning) :
          emitted[i].args = C4_Expected(raw.platform["sensor"][key]["algorithm_tuning"], defaults)

\* C4: the six arguments of an emitted tuning instruction are, in the order of
\* the call, the written value of each field and the kind's default for each
\* omitted one (VOC 100, 12, 12, 180, 50, 230; NOx 1, 12, 12, 720, 50, 230).
C4_TuningArgs ==
    /\ C4_ArgsOf("voc_index", "set_voc_algorithm_tuning", <<100, 12, 12, 180, 50, 230>>)
    /\ C4_ArgsOf("nox_index", "set_nox_algorithm_tuning", <<1, 12, 12, 720, 50, 230>>)
    /\ \A i \in At("set_voc_algorithm_tuning") \cup At("set_nox_algorithm_tuning") :
          Len(emitted[i].args) = 6

\* a block that writes two learning times and omits the other fields
C4_Witness ==
    /\ Done
    /\ Written("sensor", "nox_index", "algorithm_tuning")
    /\ DOMAIN raw.platform["sensor"]["nox_index"]["algorithm_tuning"]
          = {"learning_time_offset_hours", "learning_time_gain_hours"}
    /\ \E i \in At("set_nox_algorithm_tuning") : emitted[i].args = <<1, 720, 24, 720, 50, 230>>

\* the positions of the call whose field both blocks omit
C5_BothOmitted ==
    {p \in 1..6 :
        /\ C4_Order[p] \notin DOMAIN raw.platform["sensor"]["voc_index"]["algorithm_tuning"]
        /\ C4_Order[p] \notin DOMAIN raw.platform["sensor"]["nox_index"]["algorithm_tuning"]}

C5_BothTuned ==
    /\ Ran("sensor")
    /\ Written("sensor", "voc_index", "algorithm_tuning")
    /\ Written("sensor", "nox_index", "algorithm_tuning")

\* C5, as claimed: where both blocks omit a field, the VOC and the NOx
\* instruction carry the same default, except for gating_max_duration_minutes
\* (180 for VOC, 720 for NOx).
C5_PresetsDifferInGatingOnly ==
    C5_BothTuned =>
        \A i \in At("set_voc_algorithm_tuning"), j \in At("set_nox_algorithm_tuning") :
            \A p \in C5_BothOmitted :
                IF p = 4
                THEN emitted[i].args[p] = 180 /\ emitted[j].args[p] = 720
                ELSE emitted[i].args[p] = emitted[j].args[p]

\* C5, amended: where both blocks omit a field, the VOC and the NOx instruction
\* carry the same default, except for index_offset (100 for VOC, 1 for NOx) and
\* gating_max_duration_minutes (180 for VOC, 720 for NOx).
C5_PresetsDifferInOffsetAndGating ==
    C5_BothTuned =>
        \A i \in At("set_voc_algorithm_tuning"), j \in At("set_nox_algorithm_tuning") :
            \A p \in C5_BothOmitted :
                CASE p = 1 -> emitted[i].args[p] = 100 /\ emitted[j].args[p] = 1
                  [] p = 4 -> emitted[i].args[p] = 180 /\ emitted[j].args[p] = 720
                  [] OTHER -> emitted[i].args[p] = emitted[j].args[p]

C5_Witness ==
    /\ Done
    /\ C5_BothTuned
    /\ C5_BothOmitted = 1..6
    /\ At("set_voc_algorithm_tuning") # {} /\ At("set_nox_algorithm_tuning") # {}

\* the written value of an option of temperature_offset, 0 where it is omitted
C6_Value(option) ==
    IF Written("number", "temperature_offset", option)
    THEN raw.platform["number"]["temperature_offset"][option]
    ELSE 0

\* C6: set_temperature_compensation is emitted if and only if temperature_offset
\* is declared and its slope or its time constant is not 0; then it is emitted
\* once, after the entity's binding, with the arguments (0.0, slope,
\* time_constant), an omitted field counting as 0.
C6_CompensationIffNonDefault ==
    IF /\ Ran("number")
       /\ Declared("number", "temperature_offset")
       /\ (C6_Value("normalized_offset_slope") # 0 \/ C6_Value("time_constant") # 0)
    THEN /\ Cardinality(At("set_temperature_compensation")) = 1
         /\ \A i \in At("set_temperature_compensation") :
               /\ emitted[i].args =
                     <<0, C6_Value("normalized_offset_slope"), C6_Value("time_constant")>>
               /\ \E j \in At("set_temperature_offset_number") :
                     j < i /\ emitted[j].var = "temperature_offset"
    ELSE At("set_temperature_compensation") = {}

\* slope 0.05 and no time constant: one instruction with (0.0, 0.05, 0)
C6_Witness ==
    /\ Done
    /\ Written("number", "temperature_offset", "normalized_offset_slope")
    /\ ~Written("number", "temperature_offset", "time_constant")
    /\ \E i \in At("set_temperature_compensation") : emitted[i].args = <<0, 5, 0>>

\* the seconds of a written interval
C7_Seconds(i) ==
    i["n"] * (CASE i["unit"] = "s" -> 1
                [] i["unit"] = "min" -> 60
                [] i["unit"] = "h" -> 3600
                [] i["unit"] = "d" -> 86400)

\* C7: when auto_fan_cleaning is declared, one set_auto_cleaning_interval is
\* emitted after the switch's binding, its argument the interval in seconds
\* times 1000 (604800000 when the interval is omitted, 3600000 for one hour);
\* when it is not declared, none is emitted.
C7_IntervalInMilliseconds ==
    IF Ran("switch") /\ Declared("switch", "auto_fan_cleaning")
    THEN /\ Cardinality(At("set_auto_cleaning_interval")) = 1
         /\ \A i \in At("set_auto_cleaning_interval") :
               /\ \E j \in At("set_auto_cleaning_switch") :
                     j < i /\ emitted[j].var = "auto_fan_cleaning"
               /\ IF Written("switch", "auto_fan_cleaning", "interval")
                  THEN LET w == raw.platform["switch"]["auto_fan_cleaning"]["interval"]
                       IN  /\ emitted[i].args = <<C7_Seconds(w) * 1000>>
                           /\ w = [n |-> 1, unit |-> "h"] => emitted[i].args = <<3600000>>
                           /\ w = [n |-> 7, unit |-> "d"] => emitted[i].args = <<604800000>>
                  ELSE emitted[i].args = <<604800000>>
    ELSE At("set_auto_cleaning_interval") = {}

C7_Witness ==
    /\ Done
    /\ Written("switch", "auto_fan_cleaning", "interval")
    /\ raw.platform["switch"]["auto_fan_cleaning"]["interval"] = [n |-> 1, unit |-> "h"]
    /\ \E i \in At("set_auto_cleaning_interval") : emitted[i].args = <<3600000>>

\* the entity whose parameters an instruction without a variable carries
ParameterOwner ==
    [set_voc_algorithm_tuning     |-> "voc_index",
     set_nox_algorithm_tuning     |-> "nox_index",
     set_temperature_compensation |-> "temperature_offset",
     set_auto_cleaning_interval   |-> "auto_fan_cleaning"]

\* the entity key an emitted instruction is about, "" for the hub's own
KeyOf(i) ==
    IF emitted[i].var \in AllKeys THEN emitted[i].var
    ELSE IF emitted[i].op \in DOMAIN ParameterOwner THEN ParameterOwner[emitted[i].op]
    ELSE ""

\* the to_code job an emitted instruction comes from
JobOf(i) ==
    IF KeyOf(i) = "" THEN "hub"
    ELSE CHOOSE r \in Registrars : KeyOf(i) \in EntityKeys[r]

Constructor ==
    [sensor |-> "new_sensor", binary_sensor |-> "new_binary_sensor",
     number |-> "new_number", switch |-> "new_switch", button |-> "new_button",
     text_sensor |-> "new_text_sensor"]

Constructions(r, k) ==
    {i \in DOMAIN emitted : emitted[i].var = k /\ emitted[i].op = Constructor[r]}

Bindings(k) ==
    {i \in DOMAIN emitted : emitted[i].var = k /\ emitted[i].op \notin Range(Constructor)}

\* C8: for every entity key of the six platforms: when the key is absent no
\* instruction is emitted for it; when it is present (and its platform's to_code
\* has run) exactly one construction and, after it, exactly one binding are
\* emitted for it; and no binding point is set twice in a build.
C8_OneConstructionOneBinding ==
    /\ \A r \in Registrars : \A k \in EntityKeys[r] :
          IF Declared(r, k) /\ Ran(r)
          THEN /\ Cardinality(Constructions(r, k)) = 1
               /\ Cardinality(Bindings(k)) = 1
               /\ \A i \in Constructions(r, k), j \in Bindings(k) : i < j
          ELSE {i \in DOMAIN emitted : KeyOf(i) = k} = {}
    /\ \A i, j \in DOMAIN emitted :
          (i # j /\ emitted[i].var \in AllKeys /\ emitted[j].var \in AllKeys
               /\ emitted[i].op = emitted[j].op)
          => emitted[i].op \in Range(Constructor)

C8_Witness ==
    /\ Done
    /\ Declared("button", "fan_cleaning") /\ Declared("button", "device_reset")
    /\ ~Declared("button", "sht_heater")
    /\ Bindings("fan_cleaning") # {} /\ Bindings("device_reset") # {}

\* C9, as claimed: within a platform, the instructions of an entity the user
\* declared earlier precede those of an entity declared later.
C9_DeclarationOrder ==
    \A r \in Platforms :
        Ran(r) =>
            \A a, b \in DOMAIN raw.order[r] :
                a < b =>
                    \A i, j \in DOMAIN emitted :
                        (KeyOf(i) = raw.order[r][a] /\ KeyOf(j) = raw.order[r][b]) => i < j

\* C9, amended: within a platform, the instructions of the declared entities
\* are emitted in the fixed order of the to_code's tests, whatever the order in
\* which the user declared them.
C9_CodeOrder ==
    \A r \in Platforms :
        Ran(r) =>
            \A a, b \in DOMAIN CodeOrder[r] :
                (a < b /\ Declared(r, CodeOrder[r][a]) /\ Declared(r, CodeOrder[r][b])) =>
                    /\ \E i \in DOMAIN emitted : KeyOf(i) = CodeOrder[r][a]
                    /\ \E j \in DOMAIN emitted : KeyOf(j) = CodeOrder[r][b]
                    /\ \A i, j \in DOMAIN emitted :
                          (KeyOf(i) = CodeOrder[r][a] /\ KeyOf(j) = CodeOrder[r][b]) => i < j

\* declared against the order of the tests
C9_Witness ==
    /\ Done
    /\ \E r \in Platforms :
          /\ Len(raw.order[r]) = 2
          /\ \E a, b \in DOMAIN CodeOrder[r] :
                a < b /\ raw.order[r] = <<CodeOrder[r][b], CodeOrder[r][a]>>
          /\ \E i \in DOMAIN emitted : KeyOf(i) = raw.order[r][1]

C10_Order == <<"sensor", "binary_sensor", "number", "switch", "button", "text_sensor">>

Index(seq, x) == CHOOSE p \in DOMAIN seq : seq[p] = x

C11_Opening == <<"new_Pvariable", "register_component", "register_i2c_device">>

\* every other instruction: the hub's setters and all that the platforms emit
C11_Setters == {i \in DOMAIN emitted : emitted[i].op \notin Range(C11_Opening)}

\* C11: the first instruction of a build constructs the hub, the second
\* registers it as a component, the third as an I2C device; each of the three
\* is emitted once, and every other instruction (pressure-source binding, RHT
\* acceleration, every instruction of every platform) comes after all three.
C11_HubOpensTheBuild ==
    emitted # <<>> =>
        /\ Len(emitted) >= 3
        /\ \A n \in 1..3 :
              /\ emitted[n].op = C11_Opening[n]
              /\ emitted[n].var = "hub"
              /\ At(C11_Opening[n]) = {n}
        /\ emitted[2].args = <<config.hub["update_interval"]>>
        /\ emitted[3].args = <<config.hub["address"]>>
        /\ \A i \in C11_Setters : i > 3

\* a finished build with a setter of the hub and an instruction of a platform
C11_Witness ==
    /\ Done
    /\ At("set_pressure_source") \cup At("set_rht_acceleration") # {}
    /\ \E i \in C11_Setters : JobOf(i) # "hub"

(***************************************************************************)
(* C12: a pressure source that is no declared sensor.                      *)
(***************************************************************************)
\* the hub names a pressure source that was never declared as a sensor
C12_Undeclared ==
    /\ "pressure_source" \in DOMAIN raw.hub
    /\ raw.hub["pressure_source"] \notin raw.ids

\* C12: a build whose hub names an undeclared pressure source is never
\* validated; it fails on the unresolved identifier, and neither before nor
\* at nor after the failure has any to_code run or any instruction been
\* emitted.
C12_UndeclaredSourceFails ==
    C12_Undeclared =>
        /\ status \in {"raw", "failed"}
        /\ status = "failed" => "use_id" \in errors
        /\ emitted = <<>>
        /\ ran = <<>>
        /\ ~ENABLED RunHub
        /\ \A r \in Registrars : ~ENABLED RunPlatform(r)

\* the build of a configuration with an entity and an undeclared pressure
\* source has failed
C12_Witness ==
    /\ C12_Undeclared
    /\ status = "failed"
    /\ \E r \in Platforms : DOMAIN raw.platform[r] # {}

(***************************************************************************)
(* C13: the integer ranges are inclusive.                                  *)
(***************************************************************************)
\* the range of each integer field, as claimed
C13_Range ==
    [index_offset |-> <<1, 250>>, learning_time_offset_hours |-> <<1, 1000>>,
     learning_time_gain_hours |-> <<1, 1000>>, gating_max_duration_minutes |-> <<0, 3000>>,
     std_initial |-> <<10, 5000>>, gain_factor |-> <<1, 1000>>,
     k |-> <<-32768, 32767>>, p |-> <<-32768, 32767>>,
     t1 |-> <<0, 65535>>, t2 |-> <<0, 65535>>,
     time_constant |-> <<0, 65535>>]

\* the integer fields the user wrote, each with its value
C13_Written ==
    UNION {{<<f, raw.platform["sensor"][k]["algorithm_tuning"][f]>> :
               f \in DOMAIN raw.platform["sensor"][k]["algorithm_tuning"]}
           : k \in {e \in {"voc_index", "nox_index"} : Written("sensor", e, "algorithm_tuning")}}
    \cup (IF "rht_acceleration" \in DOMAIN raw.hub
          THEN {<<f, raw.hub["rht_acceleration"][f]>> : f \in DOMAIN raw.hub["rht_acceleration"]}
          ELSE {})
    \cup (IF Written("number", "temperature_offset", "time_constant")
          THEN {<<"time_constant", raw.platform["number"]["temperature_offset"]["time_constant"]>>}
          ELSE {})

C13_InRange(w) == C13_Range[w[1]][1] <= w[2] /\ w[2] <= C13_Range[w[1]][2]

\* C13: a configuration is validated only if every integer field it writes
\* lies in the field's range, both ends included, and it fails only if one
\* lies outside; the failure is that of the range validator, and for such a
\* configuration no to_code runs and no instruction is emitted.
C13_InclusiveRanges ==
    LET ok == \A w \in C13_Written : C13_InRange(w)
    IN  /\ status = "validated" => ok
        /\ status = "failed" => ~ok /\ errors = {"int_range"}
        /\ ~ok => emitted = <<>> /\ ran = <<>>

\* a field written one above its maximum: the build has failed
C13_Witness ==
    /\ status = "failed"
    /\ \E w \in C13_Written : w[2] = C13_Range[w[1]][2] + 1

\* a field written with its maximum: the build has run
C13_WitnessAccepted ==
    /\ Done
    /\ \E w \in C13_Written : w[2] = C13_Range[w[1]][2]

(***************************************************************************)
(* C15: the bounds of the numbers.                                         *)
(***************************************************************************)
\* min, max and step of each number as claimed, in tenths
C15_Bounds ==
    [altitude_compensation |-> <<0, 30000, 10>>,
     ambient_pressure_compensation |-> <<0, 11000, 10>>,
     temperature_offset |-> <<-100, 100, 1>>,
     outdoor_co2_reference |-> <<3500, 5000, 10>>]

\* C15: every number is constructed with min 0, max 3000, step 1 (altitude
\* compensation), min 0, max 1100, step 1 (ambient pressure compensation),
\* min -10, max 10, step 0.1 (temperature offset) or min 350, max 500, step 1
\* (outdoor CO2 reference), whatever the configuration writes; and once the
\* number platform's to_code has run, every declared number is constructed so.
C15_FixedBounds ==
    /\ \A i \in At("new_number") :
          /\ emitted[i].var \in DOMAIN C15_Bounds
          /\ emitted[i].args = C15_Bounds[emitted[i].var]
    /\ Ran("number") =>
          \A k \in DOMAIN C15_Bounds :
              Declared("number", k) =>
                  \E i \in At("new_number") : emitted[i].var = k

\* all four numbers constructed, temperature_offset with a slope and a time
\* constant written
C15_Witness ==
    /\ Done
    /\ \A k \in DOMAIN C15_Bounds : \E i \in At("new_number") : emitted[i].var = k
    /\ Written("number", "temperature_offset", "normalized_offset_slope")
    /\ Written("number", "temperature_offset", "time_constant")
    /\ raw.platform["number"]["temperature_offset"]["normalized_offset_slope"] # 0
    /\ raw.platform["number"]["temperature_offset"]["time_constant"] # 0

(***************************************************************************)
(* C16: the RHT acceleration.                                              *)
(***************************************************************************)
\* the user wrote an rht_acceleration block
C16_Block == "rht_acceleration" \in DOMAIN raw.hub

\* the block lacks one of the four fields
C16_Partial == C16_Block /\ DOMAIN raw.hub["rht_acceleration"] # {"k", "p", "t1", "t2"}

\* C16: once the hub's to_code has run, set_rht_acceleration has been emitted
\* once if the configuration has an rht_acceleration block and not at all if
\* it has none; the instruction carries k, p, t1 and t2 as the user wrote
\* them; and a configuration whose block lacks any of the four fields is
\* never validated: it fails on the required key, nothing is emitted, and so
\* no instruction with fewer than the four written values ever is.
C16_RhtIffBlock ==
    /\ Cardinality(At("set_rht_acceleration")) = (IF Ran("hub") /\ C16_Block THEN 1 ELSE 0)
    /\ \A i \in At("set_rht_acceleration") :
          /\ DOMAIN raw.hub["rht_acceleration"] = {"k", "p", "t1", "t2"}
          /\ emitted[i].args = <<raw.hub["rht_acceleration"]["k"],
                                 raw.hub["rht_acceleration"]["p"],
                                 raw.hub["rht_acceleration"]["t1"],
                                 raw.hub["rht_acceleration"]["t2"]>>
    /\ C16_Partial =>
          /\ status \in {"raw", "failed"}
          /\ status = "failed" => "Required" \in errors
          /\ emitted = <<>>

\* a finished build whose hub has a pressure source and a block of four
\* distinct values, the RHT acceleration emitted
C16_Witness ==
    /\ Done
    /\ C16_Block
    /\ "pressure_source" \in DOMAIN raw.hub
    /\ raw.hub["rht_acceleration"]["k"] # raw.hub["rht_acceleration"]["p"]
    /\ At("set_rht_acceleration") # {}

\* the build of a configuration whose block lacks a field has failed
C16_WitnessPartial ==
    /\ C16_Partial
    /\ Cardinality(DOMAIN raw.hub["rht_acceleration"]) = 3
    /\ status = "failed"

====
